---- MODULE Spec2Model ----
(***************************************************************************)
(* Workflow engine of app/engine (executor, store, registry, models) and   *)
(* its HTTP entry points in app/api/graph_routes.py.                       *)
(*                                                                         *)
(* Python values are modelled as follows.                                  *)
(*   - a dict is a TLA+ function whose DOMAIN is the set of keys present;  *)
(*   - a list is a sequence;                                               *)
(*   - None is the string "None";                                          *)
(*   - object identity matters for the dict and the list that run_graph    *)
(*     hands to update_run: the Run record keeps a reference, not a copy.  *)
(*     A reference is a record [kind |-> "ref", req |-> r] (the object     *)
(*     currently bound to the local of request r) or                       *)
(*     [kind |-> "val", val |-> v] (an object nobody else can reach).      *)
(* Wall-clock fields (duration_ms, created_at, updated_at) carry no logic  *)
(* and are left out of the records.                                        *)
(***************************************************************************)
EXTENDS Integers, Sequences, FiniteSets, TLC

\* ------------------------------------------------------------------ bounds

\* Largest step budget a Build request asks for.
MaxSteps == 2

\* Number of Run requests the process receives.
NumRequests == 2

\* ------------------------------------------------------------- Python values

None == "None"

EmptyDict == [k \in {} |-> k]

Dict1(k, v) == [x \in {k} |-> v]

\* d.get(k, default)
Get(d, k, default) == IF k \in DOMAIN d THEN d[k] ELSE default

\* d[k] = v
Put(d, k, v) == [x \in (DOMAIN d) \cup {k} |-> IF x = k THEN v ELSE d[x]]

\* what d.pop(k, None) leaves in d
Pop(d, k) == [x \in (DOMAIN d) \ {k} |-> d[x]]

\* d.setdefault(k, v)
SetDefault(d, k, v) == IF k \in DOMAIN d THEN d ELSE Put(d, k, v)

\* ------------------------------------------------------------------ registry

\* Identifiers the workflow modules have registered, and one that nobody has.
RegisteredIds == {"a", "b"}

UnregisteredId == "z"

AllIds == RegisteredIds \cup {UnregisteredId}

\* The step function registered under an identifier.  Function "fn_a"
\* mutates the dict it is given and returns it (as every node of
\* workflows/code_review.py does); "fn_b" returns a new dict.
StartupRegistry == [n \in RegisteredIds |-> "fn_" \o n]

ReturnsNewDict(func) == func = "fn_b"

VARIABLES
    NODE_REGISTRY,      \* registry.NODE_REGISTRY : node id -> step function
    GRAPHS,             \* store.GRAPHS : graph id -> Graph
    RUNS,               \* store.RUNS : run id -> run record
    buildResponse,      \* what the last POST /graph/create answered
    pollResponse,       \* what the last GET /graph/state/{run_id} answered
    pc,                 \* per Run request: where its handler stands
    graph,              \* per Run request: the Graph get_graph returned
    run_id,             \* per Run request: create_run's run_id
    initial_state,      \* per Run request: the dict payload.initial_state
    state,              \* per Run request: the dict bound to run_graph's state
    log,                \* per Run request: run_graph's log list
    current_node_id,    \* per Run request: run_graph's current_node_id
    step,               \* per Run request: run_graph's step
    status,             \* per Run request: run_graph's status
    response,           \* per Run request: the HTTP answer
    trace               \* per Run request: history of the node calls made

vars == <<NODE_REGISTRY, GRAPHS, RUNS, buildResponse, pollResponse, pc,
          graph, run_id, initial_state, state, log, current_node_id, step,
          status, response, trace>>

storeVars == <<NODE_REGISTRY, GRAPHS, RUNS>>

runVars == <<pc, graph, run_id, initial_state, state, log, current_node_id,
             step, status, response, trace>>

Requests == 1 .. NumRequests

\* The first Run request the process receives.
FirstRequest == CHOOSE r \in Requests : \A q \in Requests : r <= q

NoGraph == [id |-> "none"]

NoResponse == [code |-> 0]

\* ---------------------------------------------------------------- _summarise_state

\* A summary string is modelled as the sequence of its comma-separated parts.
IsList(v) == v.type = "list"

\* cr.get(key) is not None exactly when the key is present (the reports
\* modelled hold numbers only).
ComplexityParts(cr) ==
    (IF "estimated_complexity" \in DOMAIN cr.items
        THEN << <<"complexity", cr.items["estimated_complexity"]>> >> ELSE <<>>)
    \o (IF "function_count" \in DOMAIN cr.items
        THEN << <<"functions", cr.items["function_count"]>> >> ELSE <<>>)

\* cr.get raises AttributeError unless complexity_report is a mapping.
SummaryRaises(s) ==
    "complexity_report" \in DOMAIN s /\ s["complexity_report"].type # "dict"

_summarise_state(s) ==
    LET parts ==
            (IF "quality_score" \in DOMAIN s
                THEN << <<"quality_score", s["quality_score"]>> >> ELSE <<>>)
            \o (IF "iteration" \in DOMAIN s
                THEN << <<"iteration", s["iteration"]>> >> ELSE <<>>)
            \o (IF "issues" \in DOMAIN s /\ IsList(s["issues"])
                THEN << <<"issues", Len(s["issues"].items)>> >> ELSE <<>>)
            \o (IF "complexity_report" \in DOMAIN s
                THEN ComplexityParts(s["complexity_report"]) ELSE <<>>)
    IN  IF parts = <<>> THEN << <<"state updated">> >> ELSE parts

\* ------------------------------------------------------------------ requests

GraphIds == {"g"}

\* Edge tables a Build request may carry: none, a chain, a self loop, a
\* two-node cycle, a target that is no node, a source that is no node.
EdgeTables ==
    { EmptyDict,
      [n \in {"a", "b"} |-> IF n = "a" THEN "b" ELSE None],
      Dict1("a", "a"),
      [n \in {"a", "b"} |-> IF n = "a" THEN "b" ELSE "a"],
      Dict1("a", UnregisteredId),
      Dict1(UnregisteredId, "a") }

Payload(nodes, edges, start_node, max_steps) ==
    [ graph_id |-> "g", nodes |-> nodes, edges |-> edges,
      start_node |-> start_node, max_steps |-> max_steps ]

\* The Build requests made: every edge table over nodes a and b started at
\* a with the largest budget, the chain with every budget, the chain started
\* at b, a one-node graph, and two requests create_graph rejects.
BuildPayloads ==
    { Payload(<<"a", "b">>, e, "a", MaxSteps) : e \in EdgeTables }
    \cup { Payload(<<"a", "b">>, [n \in {"a", "b"} |-> IF n = "a" THEN "b" ELSE None],
                   "a", m) : m \in 0 .. MaxSteps }
    \cup { Payload(<<"a", "b">>, Dict1("a", "b"), "b", MaxSteps),
           Payload(<<"a">>, Dict1("a", "b"), "a", MaxSteps),
           Payload(<<"a", UnregisteredId>>, EmptyDict, "a", MaxSteps),
           Payload(<<"a">>, EmptyDict, "b", MaxSteps) }

\* Values a caller may send as complexity_report: a mapping, or a string.
ComplexityReports ==
    { [type |-> "dict", items |-> Dict1("estimated_complexity", 3)],
      [type |-> "str", items |-> EmptyDict] }

\* The initial_state of a Run request.
InitialStates ==
    { EmptyDict,
      Dict1("_finished", TRUE),
      Dict1("_next_node", "b"),
      Dict1("iteration", 1) }
    \cup { Dict1("complexity_report", cr) : cr \in ComplexityReports }

\* What one call of a step function does to the control keys of the state:
\* fin is "keep", "True" or "False" (the bool written to _finished), nxt is
\* "keep" or the value written to _next_node; raises = the call fails.
NodeEffects ==
    [ fin : {"keep", "True"}, nxt : {"keep", "a", "b"}, raises : {FALSE} ]
    \cup { [fin |-> "False", nxt |-> "keep", raises |-> FALSE],
           [fin |-> "keep", nxt |-> UnregisteredId, raises |-> FALSE],
           [fin |-> "keep", nxt |-> None, raises |-> FALSE],
           [fin |-> "keep", nxt |-> "keep", raises |-> TRUE] }

\* The dict a step function leaves behind.
ApplyEffect(s, eff) ==
    LET s1 == IF eff.fin = "keep" THEN s
              ELSE Put(s, "_finished", eff.fin = "True")
    IN  IF eff.nxt = "keep" THEN s1 ELSE Put(s1, "_next_node", eff.nxt)

\* Mutant: the _finished flag honoured only when no override is pending.
FinishedUnlessRouted(s) ==
    Get(s, "_finished", FALSE) = TRUE /\ "_next_node" \notin DOMAIN s

\* truthiness of state.get("_finished")
Finished(s) == Get(s, "_finished", FALSE) = TRUE

\* --------------------------------------------------------------------- store

\* f"run_{len(RUNS) + 1}"
NewRunId(runs) == "run_" \o ToString(Cardinality(DOMAIN runs) + 1)

StateRef(r) == [kind |-> "state", req |-> r, val |-> EmptyDict]

InitialStateRef(r) == [kind |-> "initial_state", req |-> r, val |-> EmptyDict]

LogRef(r) == [kind |-> "log", req |-> r, val |-> <<>>]

Val(v) == [kind |-> "val", req |-> 0, val |-> v]

\* What a create_run or update_run call stores, taken by value at the time
\* of the call (history: the record itself holds references).
Written(s, l, st) == [state |-> s, log |-> l, status |-> st]

\* The record create_run inserts: the caller's dict itself and a new list.
NewRun(rid, graph_id, r) ==
    [ id |-> rid, graph_id |-> graph_id, state |-> InitialStateRef(r),
      log |-> Val(<<>>), status |-> "created",
      written |-> Written(initial_state[r], <<>>, "created") ]

\* store.update_run on an existing run: the record is given the objects
\* themselves (run_graph's state dict and log list), not copies.
update_run(runs, rid, r, st) ==
    [runs EXCEPT ![rid].state = StateRef(r), ![rid].log = LogRef(r),
                 ![rid].status = st,
                 ![rid].written = Written(state[r], log[r], st)]

\* The dict / list a record's field refers to, as a reader sees it now.
DerefState(ref) ==
    CASE ref.kind = "initial_state" -> initial_state[ref.req]
      [] ref.kind = "state" -> state[ref.req]
      [] OTHER -> ref.val

DerefLog(ref) == IF ref.kind = "log" THEN log[ref.req] ELSE ref.val

\* store.get_run: the record with its fields read through.
get_run(rid) ==
    [ id |-> RUNS[rid].id, graph_id |-> RUNS[rid].graph_id,
      state |-> DerefState(RUNS[rid].state), log |-> DerefLog(RUNS[rid].log),
      status |-> RUNS[rid].status ]

\* When request r rebinds its local state to a new dict, the records that
\* still hold the old dict keep it with the contents it had.
Rebind(runs, r, old) ==
    [ k \in DOMAIN runs |->
        IF runs[k].state = StateRef(r)
        THEN [runs[k] EXCEPT !.state = Val(old)] ELSE runs[k] ]

\* ---------------------------------------------------------------------- Init

Init ==
    /\ NODE_REGISTRY = StartupRegistry
    /\ GRAPHS = EmptyDict
    /\ RUNS = EmptyDict
    /\ buildResponse = NoResponse
    /\ pollResponse = NoResponse
    /\ pc = [r \in Requests |-> "idle"]
    /\ graph = [r \in Requests |-> NoGraph]
    /\ run_id = [r \in Requests |-> None]
    /\ initial_state = [r \in Requests |-> EmptyDict]
    /\ state = [r \in Requests |-> EmptyDict]
    /\ log = [r \in Requests |-> <<>>]
    /\ current_node_id = [r \in Requests |-> None]
    /\ step = [r \in Requests |-> 0]
    /\ status = [r \in Requests |-> "none"]
    /\ response = [r \in Requests |-> NoResponse]
    /\ trace = [r \in Requests |-> <<>>]

\* ------------------------------------------------------------- register_node

\* registry.register_node: inserts or silently replaces the binding.
register_node(node_id, func) ==
    /\ NODE_REGISTRY' = Put(NODE_REGISTRY, node_id, func)
    /\ UNCHANGED <<GRAPHS, RUNS, buildResponse, pollResponse>>
    /\ UNCHANGED runVars

\* -------------------------------------------------------------- create_graph

\* registry.get_node succeeds on node_id
Registered(node_id) == node_id \in DOMAIN NODE_REGISTRY

\* The first identifier of payload.nodes that get_node rejects (0: none).
FirstUnregistered(nodes) ==
    IF \A i \in 1 .. Len(nodes) : Registered(nodes[i]) THEN 0
    ELSE CHOOSE i \in 1 .. Len(nodes) :
            /\ ~Registered(nodes[i])
            /\ \A j \in 1 .. (i - 1) : Registered(nodes[j])

\* node_funcs once the loop over payload.nodes has passed
NodeFuncs(nodes) ==
    [n \in {nodes[i] : i \in 1 .. Len(nodes)} |-> NODE_REGISTRY[n]]

\* The HTTP 400 create_graph raises for the payload ("none" when it passes).
BuildError(payload) ==
    IF FirstUnregistered(payload.nodes) # 0 THEN "node_not_registered"
    ELSE IF payload.start_node \notin DOMAIN NodeFuncs(payload.nodes)
         THEN "start_node_not_in_nodes"
    ELSE "none"

BuildGraph(payload) ==
    [ id |-> payload.graph_id, nodes |-> NodeFuncs(payload.nodes),
      edges |-> payload.edges, start_node_id |-> payload.start_node,
      max_steps |-> payload.max_steps ]

\* store.save_graph
save_graph(graphs, g) == Put(graphs, g.id, g)

\* A Run request that has arrived and not yet answered.
InFlight(r) == pc[r] \notin {"idle", "responded"}

\* Mutant: the graph is saved as soon as its nodes have resolved, before the
\* start node is validated.
create_graph_SaveFirst(payload, limit) ==
    /\ Cardinality({q \in Requests : InFlight(q)}) < limit
    /\ IF FirstUnregistered(payload.nodes) # 0
       THEN /\ buildResponse' = [code |-> 400, detail |-> BuildError(payload),
                                 graph_id |-> payload.graph_id]
            /\ GRAPHS' = GRAPHS
       ELSE /\ GRAPHS' = save_graph(GRAPHS, BuildGraph(payload))
            /\ buildResponse' =
                    IF BuildError(payload) # "none"
                    THEN [code |-> 400, detail |-> BuildError(payload),
                          graph_id |-> payload.graph_id]
                    ELSE [code |-> 200, detail |-> "created",
                          graph_id |-> payload.graph_id]
    /\ UNCHANGED <<NODE_REGISTRY, RUNS, pollResponse>>
    /\ UNCHANGED runVars

\* POST /graph/create; at most `limit` requests are served at once.
create_graph(payload, limit) ==
    /\ Cardinality({q \in Requests : InFlight(q)}) < limit
    /\ IF BuildError(payload) # "none"
       THEN /\ buildResponse' = [code |-> 400, detail |-> BuildError(payload),
                                 graph_id |-> payload.graph_id]
            /\ GRAPHS' = GRAPHS
       ELSE /\ GRAPHS' = save_graph(GRAPHS, BuildGraph(payload))
            /\ buildResponse' = [code |-> 200, detail |-> "created",
                                 graph_id |-> payload.graph_id]
    /\ UNCHANGED <<NODE_REGISTRY, RUNS, pollResponse>>
    /\ UNCHANGED runVars

\* -------------------------------------------------------- run_graph_endpoint

\* POST /graph/run arrives: get_graph, then create_run's first line.  Requests
\* are numbered in the order they arrive; at most `limit` are served at once.
run_graph_endpoint(r, graph_id, s0, limit) ==
    /\ pc[r] = "idle"
    /\ \A q \in Requests : q < r => pc[q] # "idle"
    /\ Cardinality({q \in Requests : InFlight(q)}) < limit
    /\ initial_state' = [initial_state EXCEPT ![r] = s0]
    /\ IF graph_id \notin DOMAIN GRAPHS
       THEN /\ pc' = [pc EXCEPT ![r] = "responded"]
            /\ response' = [response EXCEPT ![r] =
                              [code |-> 404, error |-> "graph_not_found"]]
            /\ UNCHANGED <<graph, run_id>>
       ELSE /\ graph' = [graph EXCEPT ![r] = GRAPHS[graph_id]]
            /\ run_id' = [run_id EXCEPT ![r] = NewRunId(RUNS)]
            /\ pc' = [pc EXCEPT ![r] = "create_run"]
            /\ UNCHANGED response
    /\ UNCHANGED <<storeVars, buildResponse, pollResponse, state, log, current_node_id,
                   step, status, trace>>

\* The rest of create_run (the record is stored), then run_graph up to its
\* loop: the state is a copy of the caller's dict with iteration seeded.
create_run(r) ==
    /\ pc[r] = "create_run"
    /\ RUNS' = Put(RUNS, run_id[r], NewRun(run_id[r], graph[r].id, r))
    /\ state' = [state EXCEPT ![r] = SetDefault(initial_state[r], "iteration", 0)]
    /\ log' = [log EXCEPT ![r] = <<>>]
    /\ current_node_id' = [current_node_id EXCEPT ![r] = graph[r].start_node_id]
    /\ step' = [step EXCEPT ![r] = 0]
    /\ status' = [status EXCEPT ![r] = "running"]
    /\ pc' = [pc EXCEPT ![r] = "loop"]
    /\ UNCHANGED <<NODE_REGISTRY, GRAPHS, buildResponse, pollResponse, graph, run_id,
                   initial_state, response, trace>>

\* ----------------------------------------------------------------- run_graph

\* An exception leaves run_graph and the endpoint: the request answers 500.
Abort(r, error) ==
    /\ pc' = [pc EXCEPT ![r] = "responded"]
    /\ response' = [response EXCEPT ![r] = [code |-> 500, error |-> error]]

\* Mutant: the loop condition without the step budget.
LoopConditionNoBudget(r) == current_node_id[r] # None

\* Mutant: an identifier that is no node of the graph ends the loop.
LoopConditionKnownNode(r) ==
    /\ current_node_id[r] # None /\ step[r] < graph[r].max_steps
    /\ current_node_id[r] \in DOMAIN graph[r].nodes

\* Mutant: _finished is tested at the loop head, before the node is called.
LoopConditionNotFinished(r) ==
    /\ current_node_id[r] # None /\ step[r] < graph[r].max_steps
    /\ ~Finished(state[r])

\* while current_node_id is not None and step < graph.max_steps
LoopCondition(r) ==
    current_node_id[r] # None /\ step[r] < graph[r].max_steps

\* What the history keeps of one node call: the node, its function, whether
\* it returned, what the call wrote, and the control keys of the state it
\* left (finished: _finished is truthy; next_node: "absent" or the value).
Call(node_id, func, outcome, eff, s) ==
    [ node_id |-> node_id, func |-> func, outcome |-> outcome,
      set_finished |-> eff.fin # "keep", set_next |-> eff.nxt # "keep",
      finished |-> ("_finished" \in DOMAIN s /\ s["_finished"] = TRUE),
      next_node |-> IF "_next_node" \in DOMAIN s THEN s["_next_node"]
                    ELSE "absent" ]

\* Mutant: the entry numbered with the step count before its increment.
LogEntryStaleStep(r, s) ==
    [ step |-> step[r], node_id |-> current_node_id[r],
      summary |-> _summarise_state(s) ]

LogEntry(r, s) ==
    [ step |-> step[r] + 1, node_id |-> current_node_id[r],
      summary |-> _summarise_state(s) ]

\* Mutant: the node is resolved through the registry when it is called.
ResolveNodeFromRegistry(g, node_id) == NODE_REGISTRY[node_id]

\* node = graph.nodes[current_node_id]
ResolveNode(g, node_id) == g.nodes[node_id]

\* One pass of the loop body down to log.append: the node is looked up in
\* graph.nodes, called, and the entry is appended.
run_node(r, eff) ==
    /\ pc[r] = "loop"
    /\ LoopCondition(r)
    /\ step' = [step EXCEPT ![r] = step[r] + 1]
    /\ IF current_node_id[r] \notin DOMAIN graph[r].nodes
       THEN /\ Abort(r, "KeyError")
            /\ UNCHANGED <<RUNS, state, log, trace>>
       ELSE LET func == ResolveNode(graph[r], current_node_id[r])
                new == ApplyEffect(state[r], eff)
            IN  IF eff.raises
                THEN /\ Abort(r, "NodeExecutionFailure")
                     /\ trace' = [trace EXCEPT ![r] = Append(@,
                            Call(current_node_id[r], func, "raised", eff, state[r]))]
                     /\ UNCHANGED <<RUNS, state, log>>
                ELSE /\ state' = [state EXCEPT ![r] = new]
                     /\ RUNS' = IF ReturnsNewDict(func)
                                THEN Rebind(RUNS, r, state[r]) ELSE RUNS
                     /\ trace' = [trace EXCEPT ![r] = Append(@,
                            Call(current_node_id[r], func, "returned", eff, new))]
                     /\ IF SummaryRaises(new)
                        THEN /\ Abort(r, "AttributeError")
                             /\ UNCHANGED log
                        ELSE /\ log' = [log EXCEPT ![r] =
                                          Append(@, LogEntry(r, new))]
                             /\ pc' = [pc EXCEPT ![r] = "update_run"]
                             /\ UNCHANGED response
    /\ UNCHANGED <<NODE_REGISTRY, GRAPHS, buildResponse, pollResponse, graph, run_id,
                   initial_state, current_node_id, status>>

\* The update_run call inside the loop (the endpoint always gives a run_id).
update_run_step(r) ==
    /\ pc[r] = "update_run"
    /\ IF run_id[r] \notin DOMAIN RUNS
       THEN /\ Abort(r, "KeyError")
            /\ UNCHANGED RUNS
       ELSE /\ RUNS' = update_run(RUNS, run_id[r], r, status[r])
            /\ pc' = [pc EXCEPT ![r] = "route"]
            /\ UNCHANGED response
    /\ UNCHANGED <<NODE_REGISTRY, GRAPHS, buildResponse, pollResponse, graph, run_id,
                   initial_state, state, log, current_node_id, step, status,
                   trace>>

\* Mutant: the static edge wins over the override.
NextNodeEdgeFirst(s, edges, node_id) ==
    IF Get(edges, node_id, None) # None THEN edges[node_id]
    ELSE Get(s, "_next_node", None)

\* Mutant: no default edge transition, only the override.
NextNodeOverrideOnly(s, edges, node_id) == Get(s, "_next_node", None)

\* The node run_graph goes to when the state is not finished.
NextNode(s, edges, node_id) ==
    LET next_node_override == Get(s, "_next_node", None)
    IN  IF next_node_override # None THEN next_node_override
        ELSE Get(edges, node_id, None)

\* The end of the loop body: the _finished test, then the routing.
route(r) ==
    /\ pc[r] = "route"
    /\ IF Finished(state[r])
       THEN /\ status' = [status EXCEPT ![r] = "completed"]
            /\ pc' = [pc EXCEPT ![r] = "final"]
            /\ UNCHANGED <<state, current_node_id>>
       ELSE /\ state' = [state EXCEPT ![r] = Pop(state[r], "_next_node")]
            /\ current_node_id' = [current_node_id EXCEPT ![r] =
                    NextNode(state[r], graph[r].edges, current_node_id[r])]
            /\ pc' = [pc EXCEPT ![r] = "loop"]
            /\ UNCHANGED status
    /\ UNCHANGED <<storeVars, buildResponse, pollResponse, graph, run_id, initial_state,
                   log, step, response, trace>>

\* Mutant: the else clause taken to mean that the budget ran out.
ExitStatusBudgetOnly(node_id) == "max_steps_reached"

\* The status the else clause of the while loop sets.
ExitStatus(node_id) ==
    IF node_id = None THEN "completed" ELSE "max_steps_reached"

\* The loop condition fails: the else clause of the while loop.
loop_else(r) ==
    /\ pc[r] = "loop"
    /\ ~LoopCondition(r)
    /\ status' = [status EXCEPT ![r] = ExitStatus(current_node_id[r])]
    /\ pc' = [pc EXCEPT ![r] = "final"]
    /\ UNCHANGED <<storeVars, buildResponse, pollResponse, graph, run_id, initial_state,
                   state, log, current_node_id, step, response, trace>>

\* The update_run call after the loop.
update_run_final(r) ==
    /\ pc[r] = "final"
    /\ IF run_id[r] \notin DOMAIN RUNS
       THEN /\ Abort(r, "KeyError")
            /\ UNCHANGED RUNS
       ELSE /\ RUNS' = update_run(RUNS, run_id[r], r, status[r])
            /\ pc' = [pc EXCEPT ![r] = "return"]
            /\ UNCHANGED response
    /\ UNCHANGED <<NODE_REGISTRY, GRAPHS, buildResponse, pollResponse, graph, run_id,
                   initial_state, state, log, current_node_id, step, status,
                   trace>>

\* run_graph returns; the endpoint reads the record back and answers.
respond(r) ==
    /\ pc[r] = "return"
    /\ response' = [response EXCEPT ![r] =
            [code |-> 200, run_id |-> run_id[r],
             status |-> get_run(run_id[r]).status]]
    /\ pc' = [pc EXCEPT ![r] = "responded"]
    /\ UNCHANGED <<storeVars, buildResponse, pollResponse, graph, run_id, initial_state,
                   state, log, current_node_id, step, status, trace>>

\* ------------------------------------------------------------- get_run_state

\* The run identifiers a Poll asks for: those create_run can hand out, and
\* one it never does.
RunIds == {"run_" \o ToString(k) : k \in 0 .. NumRequests}

\* GET /graph/state/{run_id}: answers with the fields of the record as they
\* are at the moment of the call.
get_run_state(rid) ==
    /\ pollResponse' =
            IF rid \notin DOMAIN RUNS
            THEN [code |-> 404, run_id |-> rid]
            ELSE [ code |-> 200, run_id |-> get_run(rid).id,
                   graph_id |-> get_run(rid).graph_id,
                   state |-> get_run(rid).state, log |-> get_run(rid).log,
                   status |-> get_run(rid).status ]
    /\ UNCHANGED <<storeVars, buildResponse>>
    /\ UNCHANGED runVars

\* ---------------------------------------------------------------------- Next

\* One Run request, with every input, among any number of Build requests,
\* the requests served one at a time.  Behaviours with several Run requests,
\* one after another or overlapping, are those of SpecConc below.
Next ==
    \/ \E payload \in BuildPayloads : create_graph(payload, 1)
    \/ \E g \in GraphIds, s0 \in InitialStates :
            run_graph_endpoint(FirstRequest, g, s0, 1)
    \/ \E r \in Requests : create_run(r)
    \/ \E r \in Requests, eff \in NodeEffects : run_node(r, eff)
    \/ \E r \in Requests : update_run_step(r)
    \/ \E r \in Requests : route(r)
    \/ \E r \in Requests : loop_else(r)
    \/ \E r \in Requests : update_run_final(r)
    \/ \E r \in Requests : respond(r)

Spec == Init /\ [][Next]_vars

\* Requests served by a pool of worker threads (the endpoints are plain def
\* functions, which the framework runs in threads): the steps of the requests
\* in flight interleave.  The inputs are fewer than under Spec.
ConcPayloads ==
    { Payload(<<"a", "b">>, Dict1("a", "b"), "a", MaxSteps),
      Payload(<<"a", UnregisteredId>>, EmptyDict, "a", MaxSteps) }

ConcEffects ==
    { [fin |-> "keep", nxt |-> "keep", raises |-> FALSE],
      [fin |-> "True", nxt |-> "keep", raises |-> FALSE],
      [fin |-> "keep", nxt |-> "keep", raises |-> TRUE] }

NextConc ==
    \/ \E payload \in ConcPayloads : create_graph(payload, NumRequests)
    \/ \E r \in Requests, g \in GraphIds :
            run_graph_endpoint(r, g, EmptyDict, NumRequests)
    \/ \E r \in Requests : create_run(r)
    \/ \E r \in Requests, eff \in ConcEffects : run_node(r, eff)
    \/ \E r \in Requests : update_run_step(r)
    \/ \E r \in Requests : route(r)
    \/ \E r \in Requests : loop_else(r)
    \/ \E r \in Requests : update_run_final(r)
    \/ \E r \in Requests : respond(r)
    \/ \E rid \in RunIds : get_run_state(rid)

SpecConc == Init /\ [][NextConc]_vars

\* One Run request among Build requests and register_node calls made after
\* startup: a re-registration of a under another function, and the
\* registration of a new identifier.
RegisterCalls == { <<"a", "fn_b">>, <<UnregisteredId, "fn_a">> }

RegistryPayloads ==
    { Payload(<<"a", "b">>, Dict1("a", "b"), "a", MaxSteps),
      Payload(<<"a", UnregisteredId>>, Dict1("a", UnregisteredId), "a", MaxSteps) }

RegistryEffects ==
    { [fin |-> "keep", nxt |-> "keep", raises |-> FALSE],
      [fin |-> "keep", nxt |-> "a", raises |-> FALSE] }

NextRegistry ==
    \/ \E c \in RegisterCalls : register_node(c[1], c[2])
    \/ \E payload \in RegistryPayloads : create_graph(payload, NumRequests)
    \/ \E g \in GraphIds :
            run_graph_endpoint(FirstRequest, g, EmptyDict, NumRequests)
    \/ \E r \in Requests : create_run(r)
    \/ \E r \in Requests, eff \in RegistryEffects : run_node(r, eff)
    \/ \E r \in Requests : update_run_step(r)
    \/ \E r \in Requests : route(r)
    \/ \E r \in Requests : loop_else(r)
    \/ \E r \in Requests : update_run_final(r)
    \/ \E r \in Requests : respond(r)

SpecRegistry == Init /\ [][NextRegistry]_vars

\* ------------------------------------------------- workflows/code_review.py

QUALITY_THRESHOLD == 80

MAX_ITERATIONS == 3

DEFAULT_GRAPH_ID == "code_review_v1"

\* max_steps of the default graph
DefaultMaxSteps == 50

\* A source text is the sequence of its lines; a line is the set of the
\* features the nodes look for in it: "def" (starts with def), "loop"
\* (starts with for or while), "if", "long" (over 100 characters), "TODO",
\* "temp".
ListOf(items) == [type |-> "list", items |-> items]

RECURSIVE LinesWith(_, _, _)
\* The numbers of the lines of code, from line i on, that have the mark.
LinesWith(code, mark, i) ==
    IF i > Len(code) THEN <<>>
    ELSE (IF mark \in code[i] THEN <<i>> ELSE <<>>)
         \o LinesWith(code, mark, i + 1)

extract_functions(s) ==
    Put(s, "functions", ListOf(LinesWith(Get(s, "code", <<>>), "def", 1)))

check_complexity(s) ==
    LET code == Get(s, "code", <<>>)
        functions == Get(s, "functions", ListOf(<<>>)).items
        complexity == Len(functions) + Len(LinesWith(code, "loop", 1))
                        + 2 * Len(LinesWith(code, "if", 1))
    IN  Put(s, "complexity_report",
            [ type |-> "dict",
              items |-> [ estimated_complexity |-> complexity,
                          function_count |-> Len(functions) ] ])

RECURSIVE IssuesFrom(_, _)
\* The issues of the lines of code from line i on, in the order found.
IssuesFrom(code, i) ==
    IF i > Len(code) THEN <<>>
    ELSE (IF "long" \in code[i] THEN << <<i, "line too long">> >> ELSE <<>>)
         \o (IF "TODO" \in code[i] THEN << <<i, "TODO">> >> ELSE <<>>)
         \o (IF "temp" \in code[i] THEN << <<i, "temp">> >> ELSE <<>>)
         \o IssuesFrom(code, i + 1)

detect_issues(s) ==
    Put(s, "issues", ListOf(IssuesFrom(Get(s, "code", <<>>), 1)))

\* complexity_report.get("estimated_complexity", 0)
EstimatedComplexity(s) ==
    IF "complexity_report" \in DOMAIN s
    THEN Get(s["complexity_report"].items, "estimated_complexity", 0)
    ELSE 0

suggest_improvements(s) ==
    LET issues == Get(s, "issues", ListOf(<<>>)).items
        complexity == EstimatedComplexity(s)
        first == IF complexity > 15 THEN "high"
                 ELSE IF complexity > 8 THEN "moderate" ELSE "reasonable"
    IN  Put(s, "suggestions",
            ListOf(IF issues # <<>>
                   THEN << <<first>>, <<"address">> >> \o issues
                   ELSE << <<first>>, <<"no issues">> >>))

Max(x, y) == IF x >= y THEN x ELSE y

Min(x, y) == IF x <= y THEN x ELSE y

\* The score evaluate_quality computes.
QualityScore(s) ==
    LET complexity == EstimatedComplexity(s)
        issues == Get(s, "issues", ListOf(<<>>)).items
    IN  Max(0, Min(100, 100 - Max(0, (complexity - 5) * 3) - Len(issues) * 5))

\* evaluate_quality: the score is appended to the list object found under
\* score_history (a new list when the key is absent).
evaluate_quality(s) ==
    LET score == QualityScore(s)
        history == Get(s, "score_history", ListOf(<<>>))
    IN  Put(Put(s, "quality_score", score),
            "score_history", ListOf(Append(history.items, score)))

\* Mutant: the decision as the docstring of loop_decider words it.
LoopDecisionAsDocumented(s) ==
    IF Get(s, "quality_score", 0) >= QUALITY_THRESHOLD THEN "finish"
    ELSE IF Get(s, "iteration", 0) < MAX_ITERATIONS THEN "again"
    ELSE "finish"

\* What loop_decider decides: "finish" or "again".
LoopDecision(s) ==
    IF Get(s, "quality_score", 0) >= QUALITY_THRESHOLD THEN "finish"
    ELSE IF Get(s, "iteration", 0) + 1 < MAX_ITERATIONS THEN "again"
    ELSE "finish"

loop_decider(s) ==
    IF LoopDecision(s) = "again"
    THEN Put(Put(s, "iteration", Get(s, "iteration", 0) + 1),
             "_next_node", "extract")
    ELSE Put(s, "_finished", TRUE)

\* The nodes of the workflow: identifier -> function.
ReviewNodes ==
    [ extract |-> "extract_functions", complexity |-> "check_complexity",
      issues |-> "detect_issues", suggest |-> "suggest_improvements",
      evaluate |-> "evaluate_quality", loop |-> "loop_decider" ]

ReviewEdges ==
    [ extract |-> "complexity", complexity |-> "issues", issues |-> "suggest",
      suggest |-> "evaluate", evaluate |-> "loop", loop |-> None ]

\* The Graph register_default_workflow saves.
DefaultGraph ==
    [ id |-> DEFAULT_GRAPH_ID, nodes |-> ReviewNodes, edges |-> ReviewEdges,
      start_node_id |-> "extract", max_steps |-> DefaultMaxSteps ]

\* The state a function of the workflow returns (each mutates the dict it is
\* given and returns it).
ReviewApply(func, s) ==
    CASE func = "extract_functions" -> extract_functions(s)
      [] func = "check_complexity" -> check_complexity(s)
      [] func = "detect_issues" -> detect_issues(s)
      [] func = "suggest_improvements" -> suggest_improvements(s)
      [] func = "evaluate_quality" -> evaluate_quality(s)
      [] func = "loop_decider" -> loop_decider(s)

\* What the history keeps of one call of a workflow function: as for Call,
\* and the score and the iteration the function found in the state.
ReviewCall(node_id, func, pre, post) ==
    [ node_id |-> node_id, func |-> func, outcome |-> "returned",
      set_finished |-> (func = "loop_decider" /\ LoopDecision(pre) = "finish"),
      set_next |-> (func = "loop_decider" /\ LoopDecision(pre) = "again"),
      finished |-> ("_finished" \in DOMAIN post /\ post["_finished"] = TRUE),
      next_node |-> IF "_next_node" \in DOMAIN post THEN post["_next_node"]
                    ELSE "absent",
      score |-> Get(pre, "quality_score", 0),
      iteration |-> Get(pre, "iteration", 0),
      iteration_after |-> Get(post, "iteration", 0) ]

\* One pass of the loop body down to log.append when the node is a function
\* of the workflow.  The state dict is the executor's copy, but a list in it
\* is still the caller's list object: dict(initial_state) copies the keys,
\* not the values, and no function of the workflow binds score_history to
\* another list, so evaluate_quality's append reaches the caller's list.
run_review_node(r) ==
    /\ pc[r] = "loop"
    /\ LoopCondition(r)
    /\ step' = [step EXCEPT ![r] = step[r] + 1]
    /\ IF current_node_id[r] \notin DOMAIN graph[r].nodes
       THEN /\ Abort(r, "KeyError")
            /\ UNCHANGED <<initial_state, state, log, trace>>
       ELSE LET func == ResolveNode(graph[r], current_node_id[r])
                new == ReviewApply(func, state[r])
                callers_list == /\ func = "evaluate_quality"
                                /\ "score_history" \in DOMAIN initial_state[r]
            IN  /\ state' = [state EXCEPT ![r] = new]
                /\ initial_state' =
                        IF callers_list
                        THEN [initial_state EXCEPT ![r] =
                                Put(@, "score_history", new["score_history"])]
                        ELSE initial_state
                /\ trace' = [trace EXCEPT ![r] = Append(@,
                        ReviewCall(current_node_id[r], func, state[r], new))]
                /\ IF SummaryRaises(new)
                   THEN /\ Abort(r, "AttributeError")
                        /\ UNCHANGED log
                   ELSE /\ log' = [log EXCEPT ![r] = Append(@, LogEntry(r, new))]
                        /\ pc' = [pc EXCEPT ![r] = "update_run"]
                        /\ UNCHANGED response
    /\ UNCHANGED <<storeVars, buildResponse, pollResponse, graph, run_id,
                   current_node_id, status>>

\* The state of the process once main.startup_event has run
\* register_default_workflow.
InitReview ==
    /\ NODE_REGISTRY = ReviewNodes
    /\ GRAPHS = Dict1(DEFAULT_GRAPH_ID, DefaultGraph)
    /\ RUNS = EmptyDict
    /\ buildResponse = NoResponse
    /\ pollResponse = NoResponse
    /\ pc = [r \in Requests |-> "idle"]
    /\ graph = [r \in Requests |-> NoGraph]
    /\ run_id = [r \in Requests |-> None]
    /\ initial_state = [r \in Requests |-> EmptyDict]
    /\ state = [r \in Requests |-> EmptyDict]
    /\ log = [r \in Requests |-> <<>>]
    /\ current_node_id = [r \in Requests |-> None]
    /\ step = [r \in Requests |-> 0]
    /\ status = [r \in Requests |-> "none"]
    /\ response = [r \in Requests |-> NoResponse]
    /\ trace = [r \in Requests |-> <<>>]

\* Source texts: one without findings (score 100), one with five issues
\* (score 75), one with complexity 12 (score 79).
CleanCode == << {"def"}, {} >>

SmellyCode == << {"def"}, {"long", "TODO", "temp"}, {"if", "TODO", "temp"} >>

ComplexCode ==
    << {"def"}, {"if"}, {"if"}, {"if"}, {"if"}, {"if"}, {"loop"} >>

\* The initial_state of a Run request of the workflow.
ReviewInitialStates ==
    { Dict1("code", c) : c \in {CleanCode, SmellyCode, ComplexCode} }
    \cup { [code |-> SmellyCode, iteration |-> i] : i \in 0 .. MAX_ITERATIONS + 1 }
    \cup { [code |-> SmellyCode, score_history |-> ListOf(<<>>)],
           [code |-> CleanCode, score_history |-> ListOf(<<50>>)],
           [code |-> SmellyCode, _finished |-> TRUE],
           [code |-> SmellyCode, _next_node |-> "loop"],
           [code |-> SmellyCode, _next_node |-> "extract"],
           [code |-> SmellyCode, _next_node |-> "evaluate", iteration |-> 1] }

\* A Build request over the nodes of the workflow, with a small budget.
ReviewPayload ==
    Payload(<<"extract", "complexity", "issues", "suggest", "evaluate", "loop">>,
            ReviewEdges, "extract", MaxSteps)

ReviewGraphIds == {DEFAULT_GRAPH_ID} \cup GraphIds

\* One Run request of the default graph, or of a graph built over the same
\* nodes.
NextReview ==
    \/ create_graph(ReviewPayload, 1)
    \/ \E g \in ReviewGraphIds, s0 \in ReviewInitialStates :
            run_graph_endpoint(FirstRequest, g, s0, 1)
    \/ \E r \in Requests : create_run(r)
    \/ \E r \in Requests : run_review_node(r)
    \/ \E r \in Requests : update_run_step(r)
    \/ \E r \in Requests : route(r)
    \/ \E r \in Requests : loop_else(r)
    \/ \E r \in Requests : update_run_final(r)
    \/ \E r \in Requests : respond(r)

SpecReview == InitReview /\ [][NextReview]_vars

\* The steps of one Run request once it has arrived.
RunStep(r) ==
    \/ create_run(r)
    \/ \E eff \in NodeEffects : run_node(r, eff)
    \/ update_run_step(r)
    \/ route(r)
    \/ loop_else(r)
    \/ update_run_final(r)
    \/ respond(r)

\* The handler of a request runs synchronously in its thread and node bodies
\* terminate: a request that can take a step eventually takes one.
FairSpec == Spec /\ \A r \in Requests : WF_vars(RunStep(r))

\* ------------------------------------------------------------------- claims

\* run_graph of request r has been entered.
Entered(r) == pc[r] \in {"loop", "update_run", "route", "final", "return"}

\* run_graph of request r has returned to the endpoint.
Returned(r) == pc[r] = "return"

Budget(r) == IF graph[r].max_steps > 0 THEN graph[r].max_steps ELSE 0

LastCall(r) == trace[r][Len(trace[r])]

\* C1: a run invokes at most graph.max_steps nodes (the history of node calls
\* never grows beyond the budget, whatever the nodes write to _next_node) and
\* every request that has arrived is eventually answered.
C1_BoundedRun ==
    /\ [](\A r \in Requests : graph[r] # NoGraph => Len(trace[r]) <= Budget(r))
    /\ \A r \in Requests : (pc[r] = "create_run") ~> (pc[r] = "responded")

\* C1 witness: a one-node graph's run that was sent back to its node by
\* _next_node at every step has used its whole budget and returned.
C1_Witness ==
    \E r \in Requests :
        /\ Returned(r)
        /\ graph[r].max_steps = MaxSteps
        /\ Len(trace[r]) = MaxSteps
        /\ \A k \in 1 .. Len(trace[r]) :
              trace[r][k].node_id = "a" /\ trace[r][k].next_node = "a"
        /\ status[r] = "max_steps_reached"

\* C2: a node call that leaves _finished truthy is the last call of its run
\* (whatever the edge table or _next_node say), the run's status is then
\* completed, and completed is what the final update_run writes to the Run
\* record.
C2_FinishedStops ==
    /\ [](\A r \in Requests :
            /\ \A k \in 1 .. Len(trace[r]) :
                  (trace[r][k].outcome = "returned" /\ trace[r][k].finished)
                      => k = Len(trace[r])
            /\ ( /\ Len(trace[r]) > 0
                 /\ LastCall(r).outcome = "returned"
                 /\ LastCall(r).finished )
               => (pc[r] \in {"final", "return"} => status[r] = "completed"))
    /\ [][\A r \in Requests :
            ( /\ pc[r] = "final" /\ pc'[r] = "return"
              /\ Len(trace[r]) > 0
              /\ LastCall(r).finished )
            => RUNS'[run_id[r]].status = "completed"]_vars

\* C2 witness: the node called last in the budget set _finished together
\* with _next_node, on a node that has an outgoing edge, and the run returned.
C2_Witness ==
    \E r \in Requests :
        /\ Returned(r)
        /\ Len(trace[r]) = graph[r].max_steps
        /\ Len(trace[r]) = MaxSteps
        /\ LastCall(r).finished /\ LastCall(r).set_finished
        /\ LastCall(r).next_node = "a"
        /\ Get(graph[r].edges, LastCall(r).node_id, None) # None
        /\ RUNS[run_id[r]].status = "completed"

\* C3: when a node call leaves _next_node = X (X not None) in the state, the
\* next node called, if any, is X and not the static edge: the call after it
\* in the history is a call of X, and at the loop head current_node_id is X.
C3_OverrideRoutes ==
    \A r \in Requests :
        /\ \A k \in 1 .. (Len(trace[r]) - 1) :
              (trace[r][k].next_node \notin {"absent", None})
                  => trace[r][k + 1].node_id = trace[r][k].next_node
        /\ ( /\ pc[r] = "loop"
             /\ Len(trace[r]) > 0
             /\ LastCall(r).next_node \notin {"absent", None} )
           => current_node_id[r] = LastCall(r).next_node

\* C3 witness: node a, whose static edge leads to a itself, set _next_node
\* to b, and b was called next.
C3_Witness ==
    \E r \in Requests :
        /\ Len(trace[r]) >= 2
        /\ trace[r][1].node_id = "a" /\ trace[r][1].set_next
        /\ trace[r][1].next_node = "b"
        /\ Get(graph[r].edges, "a", None) = "a"
        /\ trace[r][2].node_id = "b"

\* The last node call of request r left _finished truthy.
LastFinished(r) == Len(trace[r]) > 0 /\ LastCall(r).finished

\* Some node call of request r wrote _next_node.
SomeNodeSetNext(r) == \E k \in 1 .. Len(trace[r]) : trace[r][k].set_next

\* C4 (as claimed): once run_graph has returned, if some node wrote
\* _next_node during the run, the key is absent from the returned state and
\* from the state the Run record holds after the final update_run.
C4_NextNodeConsumed ==
    \A r \in Requests :
        (Returned(r) /\ SomeNodeSetNext(r))
            => /\ "_next_node" \notin DOMAIN state[r]
               /\ "_next_node" \notin DOMAIN get_run(run_id[r]).state

\* C5: when the loop of run_graph has ended, status is completed or
\* max_steps_reached, and it is max_steps_reached exactly when the budget is
\* used up (step >= max_steps), a next node is pending and the last call did
\* not leave _finished truthy; that status is what the final update_run
\* writes to the Run record.
C5_TerminalStatus ==
    /\ [](\A r \in Requests :
            pc[r] \in {"final", "return"}
                => /\ status[r] \in {"completed", "max_steps_reached"}
                   /\ status[r] = "max_steps_reached"
                        <=> ( /\ step[r] >= graph[r].max_steps
                              /\ current_node_id[r] # None
                              /\ ~LastFinished(r) ))
    /\ [][\A r \in Requests :
            (pc[r] = "final" /\ pc'[r] = "return")
                => RUNS'[run_id[r]].status = status[r]]_vars

\* C5 witness: the max_steps-th call was of a node with no successor and did
\* not finish: the budget is used up and the status is completed.
C5_Witness ==
    \E r \in Requests :
        /\ Returned(r)
        /\ graph[r].max_steps = MaxSteps
        /\ step[r] = graph[r].max_steps
        /\ Len(trace[r]) = step[r]
        /\ ~LastFinished(r)
        /\ current_node_id[r] = None
        /\ status[r] = "completed"

\* No node call of request r wrote a control key.
NoNodeSetControlKey(r) ==
    \A k \in 1 .. Len(trace[r]) :
        ~trace[r][k].set_finished /\ ~trace[r][k].set_next

\* The calls of request r are start, edges[start], edges[edges[start]], ...
FollowsEdges(r) ==
    /\ Len(trace[r]) > 0 => trace[r][1].node_id = graph[r].start_node_id
    /\ \A k \in 1 .. (Len(trace[r]) - 1) :
          trace[r][k + 1].node_id = Get(graph[r].edges, trace[r][k].node_id, None)

\* The last node called by request r has no outgoing edge.
StoppedAtLeaf(r) ==
    Len(trace[r]) > 0 /\ Get(graph[r].edges, LastCall(r).node_id, None) = None

\* C6 (as claimed): in a returned run, of a graph with a positive budget,
\* where no node wrote a control key, the
\* calls follow the static edges from the start node up to a node with no
\* outgoing edge, and the status is completed.
C6_StaticRoutingToLeaf ==
    \A r \in Requests :
        (Returned(r) /\ NoNodeSetControlKey(r) /\ graph[r].max_steps >= 1)
            => FollowsEdges(r) /\ StoppedAtLeaf(r) /\ status[r] = "completed"

\* C6 (amended): when neither the caller's initial state nor any node call
\* sets a control key, the calls follow the static edges from the start
\* node, and a run that returns has either stopped at a node with no outgoing
\* edge with status completed, or used up its budget with a next node pending
\* and status max_steps_reached.
C6_StaticRouting ==
    \A r \in Requests :
        ( /\ NoNodeSetControlKey(r)
          /\ "_finished" \notin DOMAIN initial_state[r]
          /\ "_next_node" \notin DOMAIN initial_state[r] )
        => /\ FollowsEdges(r)
           /\ Returned(r) =>
                \/ StoppedAtLeaf(r) /\ status[r] = "completed"
                \/ /\ ~StoppedAtLeaf(r)
                   /\ Len(trace[r]) = Budget(r)
                   /\ current_node_id[r] # None
                   /\ status[r] = "max_steps_reached"

\* C6 witness: the chain a -> b was followed to its end without any control
\* key, and the run returned completed.
C6_Witness ==
    \E r \in Requests :
        /\ Returned(r)
        /\ NoNodeSetControlKey(r)
        /\ DOMAIN initial_state[r] = {}
        /\ Len(trace[r]) = 2
        /\ trace[r][1].node_id = "a" /\ trace[r][2].node_id = "b"
        /\ status[r] = "completed"

\* C7: the log entries are numbered 1, 2, ... in order, entry k names the
\* node of the k-th call, the first entry names graph.start_node_id, and
\* once the loop body has run through (and when run_graph returns) the log
\* has as many entries as nodes were called.
C7_LogMatchesCalls ==
    \A r \in Requests :
        /\ Len(log[r]) <= Len(trace[r])
        /\ \A k \in 1 .. Len(log[r]) :
              log[r][k].step = k /\ log[r][k].node_id = trace[r][k].node_id
        /\ Len(log[r]) > 0 => log[r][1].node_id = graph[r].start_node_id
        /\ Entered(r) => Len(log[r]) = Len(trace[r])
        /\ (pc[r] = "responded" /\ response[r].code = 200)
              => Len(log[r]) = Len(trace[r])

\* C7 witness: a returned run of two calls, a then b, with a two-entry log.
C7_Witness ==
    \E r \in Requests :
        /\ Returned(r)
        /\ Len(trace[r]) = 2 /\ Len(log[r]) = 2
        /\ trace[r][1].node_id = "a" /\ trace[r][2].node_id = "b"
        /\ log[r][2].step = 2 /\ log[r][2].node_id = "b"

TerminalStatuses == {"completed", "max_steps_reached"}

\* The statuses a record holding `old` may hold after one more step.
ForwardFrom(old) ==
    CASE old = "created" -> {"created", "running"} \cup TerminalStatuses
      [] old = "running" -> {"running"} \cup TerminalStatuses
      [] OTHER -> {old}

\* C8 (as claimed): the status of every Run record only moves forward along
\* created -> running -> {completed, max_steps_reached}, no step changes a
\* terminal status, and once run_graph has returned the record of its run_id
\* holds a terminal status.
C8_StatusMovesForward ==
    /\ [][\A rid \in DOMAIN RUNS :
            RUNS'[rid].status \in ForwardFrom(RUNS[rid].status)]_vars
    /\ [](\A r \in Requests :
            Returned(r) => RUNS[run_id[r]].status \in TerminalStatuses)

\* The node call of step k of request r raised and the request answered 500.
NodeFailed(r) ==
    /\ pc[r] = "responded"
    /\ response[r].code = 500
    /\ response[r].error = "NodeExecutionFailure"

\* C9 (as claimed): after the node call of step k has raised, the Run record
\* of the run holds status created (k = 1) or running (k > 1), never a
\* terminal status, and a log of exactly k - 1 entries.
C9_FailedRunRecord ==
    \A r \in Requests :
        NodeFailed(r)
            => /\ get_run(run_id[r]).status =
                    (IF step[r] = 1 THEN "created" ELSE "running")
               /\ Len(get_run(run_id[r]).log) = step[r] - 1

\* C10: a Build request that create_graph answers with 400 (a node that is
\* not registered, or a start node that is not among the nodes) changes
\* neither the graph store nor the run store.
C10_RejectedBuildChangesNothing ==
    [][(UNCHANGED runVars /\ buildResponse'.code = 400)
          => UNCHANGED <<GRAPHS, RUNS>>]_vars

\* C10 witness: a Build request was rejected while a graph saved earlier
\* under the same graph_id is still in the store.
C10_Witness ==
    /\ buildResponse.code = 400
    /\ buildResponse.detail = "start_node_not_in_nodes"
    /\ buildResponse.graph_id \in DOMAIN GRAPHS

\* create_run of request r has completed (its record has been stored).
Created(r) == pc[r] \notin {"idle", "create_run"} /\ run_id[r] # None

\* C11 (as claimed): the create_run calls that have completed returned
\* pairwise different identifiers, and the run store holds one record for
\* each of them (none has been overwritten).
C11_UniqueRunIds ==
    /\ \A r, q \in Requests :
          (r # q /\ Created(r) /\ Created(q)) => run_id[r] # run_id[q]
    /\ Cardinality(DOMAIN RUNS) = Cardinality({r \in Requests : Created(r)})

\* C12 (as claimed): a Poll of a run answers with the state, the log and the
\* status that the most recent create_run or update_run call for that run
\* identifier wrote.
C12_PollSeesLastUpdate ==
    [][\A rid \in RunIds :
          (get_run_state(rid) /\ rid \in DOMAIN RUNS)
              => /\ pollResponse'.state = RUNS[rid].written.state
                 /\ pollResponse'.log = RUNS[rid].written.log
                 /\ pollResponse'.status = RUNS[rid].written.status]_vars

\* C14 (as claimed): every Graph in the graph store has its start node among
\* its nodes and every edge source among its nodes.
C14_SavedGraphInvariant ==
    \A g \in DOMAIN GRAPHS :
        /\ GRAPHS[g].start_node_id \in DOMAIN GRAPHS[g].nodes
        /\ DOMAIN GRAPHS[g].edges \subseteq DOMAIN GRAPHS[g].nodes

\* The identifier request r is about to look up is no node of its graph.
Dangling(r) ==
    current_node_id[r] # None /\ current_node_id[r] \notin DOMAIN graph[r].nodes

\* The lookup graph.nodes[current_node_id] of request r has failed.
LookupFailed(r) ==
    /\ pc[r] = "responded"
    /\ response[r].code = 500
    /\ response[r].error = "KeyError"

\* C15: when the identifier to look up is no node of the graph and budget
\* is left, the step the run takes is the failure of the lookup, which
\* touches neither the run store nor the log nor the history of calls; a run
\* never leaves its loop with such an identifier pending unless the budget
\* is used up; and after the failure no node of that name has been called or
\* logged, the status is not completed and the Run record holds running.
C15_DanglingLookupFails ==
    /\ [][\A r \in Requests :
            (pc[r] = "loop" /\ LoopCondition(r) /\ Dangling(r) /\ pc'[r] # pc[r])
                => /\ pc'[r] = "responded"
                   /\ response'[r] = [code |-> 500, error |-> "KeyError"]
                   /\ UNCHANGED <<RUNS, log, trace>>]_vars
    /\ [](\A r \in Requests :
            /\ (pc[r] \in {"final", "return"} /\ Dangling(r))
                  => step[r] >= graph[r].max_steps
            /\ LookupFailed(r)
                  => /\ Dangling(r)
                     /\ Len(trace[r]) = step[r] - 1
                     /\ Len(log[r]) = step[r] - 1
                     /\ \A k \in 1 .. Len(trace[r]) :
                           trace[r][k].node_id # current_node_id[r]
                     /\ \A k \in 1 .. Len(log[r]) :
                           log[r][k].node_id # current_node_id[r]
                     /\ status[r] = "running"
                     /\ get_run(run_id[r]).status = "running")

\* C15 witness: the static edge of node a leads to an identifier that is no
\* node; a was called, the lookup of the target failed, the record says
\* running with the one entry of a.
C15_Witness ==
    \E r \in Requests :
        /\ LookupFailed(r)
        /\ Len(trace[r]) = 1
        /\ LastCall(r).next_node = "absent"
        /\ Get(graph[r].edges, "a", None) = current_node_id[r]
        /\ step[r] = 2 /\ graph[r].max_steps >= 2
        /\ get_run(run_id[r]).status = "running"
        /\ Len(get_run(run_id[r]).log) = 1

\* C16 (as claimed): no run aborts in the derivation of the log summary,
\* whatever the values of the keys the summary reads.
C16_SummaryNeverAborts ==
    \A r \in Requests :
        ~( /\ pc[r] = "responded"
           /\ response[r].code = 500
           /\ response[r].error = "AttributeError" )

\* The first pass of the loop body of request r is over.
FirstPassDone(r) == pc[r] \in {"update_run", "route", "final", "return"}

\* C20: with a budget of at least 1 a run does not leave run_graph without
\* a call of the start node as step 1, also when the caller's initial state
\* carries a truthy _finished; and when that first call leaves _finished
\* truthy the run has exactly one call and, once the loop is left, status
\* completed.
C20_StartNodeAlwaysRuns ==
    \A r \in Requests :
        /\ ( /\ pc[r] \in {"final", "return"}
             /\ graph[r].max_steps >= 1 )
           => /\ Len(trace[r]) >= 1
              /\ trace[r][1].node_id = graph[r].start_node_id
              /\ log[r][1].step = 1
              /\ log[r][1].node_id = graph[r].start_node_id
        /\ ( /\ FirstPassDone(r)
             /\ Len(trace[r]) >= 1
             /\ trace[r][1].finished )
           => /\ Len(trace[r]) = 1
              /\ pc[r] \in {"final", "return"} => status[r] = "completed"

\* C20 witness: the caller sent _finished = True, the start node (which has
\* an outgoing edge) was called and wrote no control key, and the run
\* returned completed after that one call.
C20_Witness ==
    \E r \in Requests :
        /\ Returned(r)
        /\ Get(initial_state[r], "_finished", FALSE) = TRUE
        /\ Len(trace[r]) = 1
        /\ ~trace[r][1].set_finished
        /\ trace[r][1].finished
        /\ Get(graph[r].edges, graph[r].start_node_id, None) # None
        /\ graph[r].max_steps >= 2
        /\ status[r] = "completed"

\* C17: every node call of a run invokes the function its Graph holds for
\* the node, and a register_node call changes neither a saved Graph, nor the
\* Graph a run in progress works on, nor the calls made so far.
C17_GraphBindingUsed ==
    /\ [](\A r \in Requests : \A k \in 1 .. Len(trace[r]) :
            trace[r][k].func = graph[r].nodes[trace[r][k].node_id])
    /\ [][NODE_REGISTRY' # NODE_REGISTRY
            => UNCHANGED <<GRAPHS, graph, trace>>]_vars

\* C17 witness: node a was re-registered under another function after the
\* graph was fetched, and the run then called a with the function the graph
\* holds.
C17_Witness ==
    \E r \in Requests :
        /\ Len(trace[r]) >= 1
        /\ LastCall(r).node_id = "a"
        /\ LastCall(r).outcome = "returned"
        /\ LastCall(r).func = "fn_a"
        /\ NODE_REGISTRY["a"] = "fn_b"
        /\ GRAPHS[graph[r].id].nodes["a"] = "fn_a"

\* C13 (as claimed): from the moment a Run request has handed its
\* initial_state to the endpoint, no step changes that mapping: neither its
\* keys, nor its values, nor the contents of a list it holds.
C13_InitialStateUntouched ==
    [][\A r \in Requests :
          pc[r] # "idle" => initial_state'[r] = initial_state[r]]_vars

\* The calls of loop_decider in the history of request r.
LoopCalls(r) == {k \in 1 .. Len(trace[r]) : trace[r][k].func = "loop_decider"}

\* C18 (as claimed): every call of loop_decider follows the documented
\* table: with quality_score >= QUALITY_THRESHOLD it sets _finished; else
\* with iteration < MAX_ITERATIONS it increments iteration and sets
\* _next_node to extract without setting _finished; else it sets _finished.
C18_LoopDeciderTable ==
    \A r \in Requests : \A k \in LoopCalls(r) :
        LET c == trace[r][k]
        IN  IF c.score >= QUALITY_THRESHOLD
            THEN c.set_finished /\ c.finished
            ELSE IF c.iteration < MAX_ITERATIONS
                 THEN /\ c.iteration_after = c.iteration + 1
                      /\ c.next_node = "extract"
                      /\ ~c.set_finished
                 ELSE c.set_finished /\ c.finished

\* Request r runs the default graph.
DefaultRun(r) == graph[r].id = DEFAULT_GRAPH_ID

\* The caller's initial state has no iteration key, or a non-negative one.
IterationOk(r) ==
    "iteration" \in DOMAIN initial_state[r] => initial_state[r]["iteration"] >= 0

\* MAX_ITERATIONS passes over the six nodes of the workflow.
MaxReviewCalls == MAX_ITERATIONS * Cardinality(DOMAIN ReviewNodes)

\* The run of request r stays within the bounds of the workflow.
WithinReviewBounds(r) ==
    /\ Cardinality(LoopCalls(r)) <= MAX_ITERATIONS
    /\ Len(trace[r]) <= MaxReviewCalls
    /\ status[r] # "max_steps_reached"

\* The run of request r was ended by loop_decider setting _finished.
StoppedByLoopDecider(r) ==
    /\ status[r] = "completed"
    /\ LastCall(r).func = "loop_decider"
    /\ LastCall(r).set_finished

NoInitialControlKey(r) ==
    /\ "_finished" \notin DOMAIN initial_state[r]
    /\ "_next_node" \notin DOMAIN initial_state[r]

====
